---- MODULE Spec2Model ----
(***************************************************************************)
(* Model of the real-time collaboration core of BWC-Portal-Backend:        *)
(*   - routers/websocket.py : ConnectionManager (connection registry),     *)
(*     heartbeat map, presence flags, sweep_offline_users                  *)
(*   - routers/task_management.py : task assignment workflow               *)
(*   - routers/approvals.py : approval requests                            *)
(*                                                                         *)
(* Handlers are `async def` coroutines on one event loop.  A handler runs  *)
(* without interruption up to its next `await` on a transport operation;   *)
(* database calls are synchronous.  Actions therefore model the code       *)
(* between two suspension points.                                          *)
(*                                                                         *)
(* Timestamps are read from the model clock `now`, advanced by Tick.       *)
(***************************************************************************)
EXTENDS Integers, Sequences, FiniteSets, TLC

\* ---------------------------------------------------------------- bounds
NumUsers == 2
NumClients == 2
NumSessions == 2
TickStep == 30
NumTasks == 1
MaxAssignments == 2
MaxMessages == 1
MaxNotifications == 2
MaxTime == 90
MaxApprovals == 2
MaxApprovalNotifications == 3
MaxChatMessages == 2
NumSenders == 2
MaxThread == 3
MaxThreadNotifications == 4

\* ------------------------------------------------------ program constants
\* ConnectionManager.__init__: self.grace_seconds = 60
grace_seconds == 60

Users == 1..NumUsers
\* the users who open websocket connections
Clients == 1..NumClients
Sessions == 1..NumSessions
Tasks == 1..NumTasks
\* the coroutines that may run send_personal_message at the same time
Senders == 1..NumSenders
NoUser == 0
NoTime == -1

VARIABLES
    active_connections, \* ConnectionManager.active_connections: user -> list of sockets
                        \* (<<>> stands for "key absent")
    last_heartbeat,     \* ConnectionManager.last_heartbeat, in insertion order: <<user, time>>
    is_online,          \* users.is_online column
    last_seen,          \* users.last_seen column
    now,                \* wall clock
    handler,            \* websocket_endpoint coroutine of each socket
    sweep,              \* sweep_offline_users coroutine
    presence_event,     \* what the last presence operation did (observation)
    sends,              \* send_personal_message coroutines
    task_owner,         \* tasks.owner_id
    task_created_by,    \* tasks.created_by_id
    assignments,        \* task_assignments rows, id = position
    conversations,      \* task_conversations rows, id = position
    messages,           \* task_messages rows, id = position (insertion order)
    notifications,      \* task_notifications rows, id = position
    approval_requests,  \* approval_requests rows, id = position
    approval_notifications, \* approval_notifications rows, id = position
    chat_messages       \* chat_messages rows, id = position

presence_vars == <<active_connections, last_heartbeat, is_online, last_seen, now,
                   handler, sweep, presence_event, sends>>

assignment_vars == <<task_owner, task_created_by, assignments, conversations,
                     messages, notifications>>

approval_vars == <<approval_requests, approval_notifications, chat_messages>>

workflow_vars == <<assignment_vars, approval_vars>>

vars == <<active_connections, last_heartbeat, is_online, last_seen, now,
          handler, sweep, presence_event, sends,
          task_owner, task_created_by, assignments, conversations,
          messages, notifications,
          approval_requests, approval_notifications, chat_messages>>

\* ------------------------------------------------------------ dict helpers
\* `user_id in self.last_heartbeat`
HasHeartbeat(hb, u) == \E i \in 1..Len(hb) : hb[i][1] = u

\* `self.last_heartbeat[user_id]`
HeartbeatOf(hb, u) == LET i == CHOOSE j \in 1..Len(hb) : hb[j][1] = u IN hb[i][2]

\* `self.last_heartbeat[user_id] = t`: a dict keeps the position of an existing key
SetHeartbeat(hb, u, t) ==
    IF HasHeartbeat(hb, u)
    THEN [i \in 1..Len(hb) |-> IF hb[i][1] = u THEN <<u, t>> ELSE hb[i]]
    ELSE Append(hb, <<u, t>>)

\* list.remove(x): removes the first occurrence
RemoveFirst(list, x) ==
    LET i == CHOOSE j \in 1..Len(list) : list[j] = x /\ \A k \in 1..(j-1) : list[k] # x
    IN  SubSeq(list, 1, i-1) \o SubSeq(list, i+1, Len(list))

InList(list, x) == \E i \in 1..Len(list) : list[i] = x

Registered(ac) == {s \in Sessions : \E u \in Users : InList(ac[u], s)}

\* send_personal_message's clean-up for every user: the sockets whose send_text
\* raised are removed from the user's list (an emptied list deletes the key)
DropFailed(ac, failed) ==
    [u \in Users |-> SelectSeq(ac[u], LAMBDA c : c \notin failed)]

NoEvent == [op |-> "none", user |-> NoUser, result |-> "ok",
            online |-> {}, offline |-> {}]

\* A coroutine that is not inside send_personal_message.  Inside the call it
\* holds the position of the loop (i, conn), the sockets written to so far
\* (delivered) and the local list of the sockets whose send_text raised
\* (disconnected).
IdleSend == [pc |-> "idle", user |-> NoUser, i |-> 0, conn |-> 0,
             disconnected |-> <<>>, delivered |-> {}, stale |-> FALSE]

\* What a call of send_personal_message for user u did when it ended: how it
\* ended (result: "returned" or the exception raised), the value it returned
\* (the function has no return statement), the sockets written to and the
\* sockets whose send_text raised.
SendEvent(u, result, delivered, disconnected) ==
    [op |-> "send", user |-> u, result |-> result, online |-> {}, offline |-> {},
     returned |-> IF result = "returned" THEN "None" ELSE "none",
     delivered |-> delivered,
     failed |-> {disconnected[j] : j \in 1..Len(disconnected)}]

\* `for connection in self.active_connections[user_id]` iterates the list
\* object it was given.  When the key of the user is deleted, the list object
\* is empty and a later connect creates a new one: the suspended loop no
\* longer sees the registry's list.
MarkStale(sd, ac) ==
    [k \in Senders |->
        IF sd[k].pc = "sending" /\ ac[sd[k].user] = <<>>
        THEN [sd[k] EXCEPT !.stale = TRUE]
        ELSE sd[k]]

\* ------------------------------------------------------------------- Init
PresenceInit ==
    /\ active_connections = [u \in Users |-> <<>>]
    /\ last_heartbeat = <<>>
    /\ is_online = [u \in Users |-> FALSE]
    /\ last_seen = [u \in Users |-> NoTime]
    /\ now = 0
    /\ handler = [s \in Sessions |-> [state |-> "closed", user |-> NoUser]]
    /\ sweep = [pc |-> "idle", now |-> 0, to_mark_offline |-> <<>>]
    /\ presence_event = NoEvent
    /\ sends = [k \in Senders |-> IdleSend]

\* One task exists, created and owned by user 1, who has an elevated role;
\* user 2 has the plain role.
WorkflowInit ==
    /\ task_created_by = [t \in Tasks |-> 1]
    /\ task_owner = [t \in Tasks |-> 1]
    /\ assignments = <<>>
    /\ conversations = <<>>
    /\ messages = <<>>
    /\ notifications = <<>>

ApprovalInit ==
    /\ approval_requests = <<>>
    /\ approval_notifications = <<>>
    /\ chat_messages = <<>>

Init == PresenceInit /\ WorkflowInit /\ ApprovalInit

\* users.role
role(u) == IF u = 1 THEN "admin" ELSE "user"

\* ------------------------------------------------- ConnectionManager.connect
\* Lines 22-38: accept, register the socket, stamp the heartbeat, mark the user
\* online, broadcast the presence update (sockets whose send fails are dropped)
\* and send the snapshot to the new socket.
connect(s, u, failed) ==
    LET reg == [active_connections EXCEPT ![u] = Append(@, s)]
    IN  /\ active_connections' = DropFailed(reg, failed \cap Registered(reg))
        /\ last_heartbeat' = SetHeartbeat(last_heartbeat, u, now)
        /\ is_online' = [is_online EXCEPT ![u] = TRUE]
        /\ last_seen' = [last_seen EXCEPT ![u] = now]
        /\ presence_event' = [op |-> "connect", user |-> u,
                              result |-> "ok", online |-> {u}, offline |-> {}]

\* websocket_endpoint, lines 99-104: the token resolves to user u and the
\* handler enters its receive loop
Connect(s, u) ==
    /\ handler[s].state = "closed"
    /\ \E failed \in SUBSET Sessions : connect(s, u, failed)
    /\ handler' = [handler EXCEPT ![s] = [state |-> "open", user |-> u]]
    /\ sends' = MarkStale(sends, active_connections')
    /\ UNCHANGED <<now, sweep>>
    /\ UNCHANGED workflow_vars

\* websocket_endpoint, lines 113-123: a ping stamps the heartbeat and last_seen,
\* and turns is_online back on (with a broadcast) when it was off
Ping(s) ==
    /\ handler[s].state = "open"
    /\ LET u == handler[s].user IN
       /\ last_heartbeat' = SetHeartbeat(last_heartbeat, u, now)
       /\ last_seen' = [last_seen EXCEPT ![u] = now]
       /\ is_online' = [is_online EXCEPT ![u] = TRUE]
       /\ IF is_online[u]
          THEN /\ UNCHANGED active_connections
               /\ presence_event' = [op |-> "ping", user |-> u,
                                     result |-> "ok", online |-> {}, offline |-> {}]
          ELSE /\ \E failed \in SUBSET Registered(active_connections) :
                      active_connections' = DropFailed(active_connections, failed)
               /\ presence_event' = [op |-> "ping", user |-> u,
                                     result |-> "ok", online |-> {u}, offline |-> {}]
    /\ sends' = MarkStale(sends, active_connections')
    /\ UNCHANGED <<now, handler, sweep>>
    /\ UNCHANGED workflow_vars

\* A disconnect that marks the user offline as soon as the last socket is gone
disconnect_marks_offline(s, u) ==
    LET left == IF InList(active_connections[u], s)
                THEN RemoveFirst(active_connections[u], s)
                ELSE active_connections[u]
    IN  /\ active_connections' = [active_connections EXCEPT ![u] = left]
        /\ is_online' = [is_online EXCEPT ![u] = (left # <<>>) /\ @]
        /\ presence_event' = [op |-> "disconnect", user |-> u,
                              result |-> "ok", online |-> {},
                              offline |-> IF left = <<>> THEN {u} ELSE {}]
        /\ UNCHANGED <<last_heartbeat, last_seen>>

\* ---------------------------------------------- ConnectionManager.disconnect
\* Lines 41-47: remove the socket from the user's list; list.remove raises
\* ValueError when the socket is no longer in it.  Nothing else is touched.
disconnect(s, u) ==
    /\ IF active_connections[u] # <<>> /\ InList(active_connections[u], s)
       THEN /\ active_connections' =
                   [active_connections EXCEPT ![u] = RemoveFirst(@, s)]
            /\ presence_event' = [op |-> "disconnect", user |-> u,
                                  result |-> "ok", online |-> {}, offline |-> {}]
       ELSE /\ UNCHANGED active_connections
            /\ presence_event' = [op |-> "disconnect", user |-> u,
                                  result |-> IF active_connections[u] # <<>>
                                             THEN "ValueError" ELSE "ok",
                                  online |-> {}, offline |-> {}]
    /\ UNCHANGED <<last_heartbeat, is_online, last_seen>>

\* websocket_endpoint, lines 125-126: receive_text raises WebSocketDisconnect
Disconnect(s) ==
    /\ handler[s].state = "open"
    /\ disconnect(s, handler[s].user)
    /\ handler' = [handler EXCEPT ![s] = [state |-> "closed", user |-> NoUser]]
    /\ sends' = MarkStale(sends, active_connections')
    /\ UNCHANGED <<now, sweep>>
    /\ UNCHANGED workflow_vars

\* ------------------------------------------------------------------ clock
Tick ==
    /\ now + TickStep <= MaxTime
    /\ now' = now + TickStep
    /\ presence_event' = NoEvent
    /\ UNCHANGED <<active_connections, last_heartbeat, is_online, last_seen,
                   handler, sweep, sends>>
    /\ UNCHANGED workflow_vars

\* ---------------------------------------------------- sweep_offline_users
\* Lines 132-135: the users whose last heartbeat is older than grace_seconds,
\* in the order of the heartbeat dict
StaleUsers(hb, t) ==
    LET stale == SelectSeq(hb, LAMBDA e : t - e[2] > grace_seconds)
    IN  [i \in 1..Len(stale) |-> stale[i][1]]

\* A loop that marks every stale user offline again, whatever is_online says
RECURSIVE MarkOffline_without_check(_, _, _, _, _, _)
MarkOffline_without_check(list, online, seen, t, ac, marked) ==
    IF list = <<>>
    THEN [is_online |-> online, last_seen |-> seen, rest |-> <<>>,
          marked |-> marked, pc |-> "idle"]
    ELSE LET uid == Head(list)
             online2 == [online EXCEPT ![uid] = FALSE]
             seen2 == [seen EXCEPT ![uid] = t]
         IN  IF Registered(ac) # {}
             THEN [is_online |-> online2, last_seen |-> seen2,
                   rest |-> Tail(list), marked |-> marked \cup {uid},
                   pc |-> "broadcast"]
             ELSE MarkOffline_without_check(Tail(list), online2, seen2, t, ac,
                                            marked \cup {uid})

\* Lines 136-142: the loop over to_mark_offline.  It runs until the list is
\* exhausted or until a broadcast has a socket to write to (the coroutine is
\* suspended in send_text); without any registered socket broadcast_to_all
\* returns without suspending.
RECURSIVE MarkOffline(_, _, _, _, _, _)
MarkOffline(list, online, seen, t, ac, marked) ==
    IF list = <<>>
    THEN [is_online |-> online, last_seen |-> seen, rest |-> <<>>,
          marked |-> marked, pc |-> "idle"]
    ELSE LET uid == Head(list) IN
         IF online[uid]
         THEN LET online2 == [online EXCEPT ![uid] = FALSE]
                  seen2 == [seen EXCEPT ![uid] = t]
              IN  IF Registered(ac) # {}
                  THEN [is_online |-> online2, last_seen |-> seen2,
                        rest |-> Tail(list), marked |-> marked \cup {uid},
                        pc |-> "broadcast"]
                  ELSE MarkOffline(Tail(list), online2, seen2, t, ac,
                                   marked \cup {uid})
         ELSE MarkOffline(Tail(list), online, seen, t, ac, marked)

\* sweep_offline_users from its first line to its first suspension
Sweep ==
    /\ sweep.pc = "idle"
    /\ LET r == MarkOffline(StaleUsers(last_heartbeat, now), is_online, last_seen,
                            now, active_connections, {})
       IN  /\ is_online' = r.is_online
           /\ last_seen' = r.last_seen
           /\ sweep' = [pc |-> r.pc, now |-> now, to_mark_offline |-> r.rest]
           /\ presence_event' = [op |-> "sweep", user |-> NoUser,
                                 result |-> "ok", online |-> {}, offline |-> r.marked]
    /\ UNCHANGED <<active_connections, last_heartbeat, now, handler, sends>>
    /\ UNCHANGED workflow_vars

\* sweep_offline_users resumed after the broadcast of line 142: the sockets
\* whose send failed are dropped, then the loop goes on
SweepResume ==
    /\ sweep.pc = "broadcast"
    /\ \E failed \in SUBSET Registered(active_connections) :
          LET ac == DropFailed(active_connections, failed)
              r == MarkOffline(sweep.to_mark_offline, is_online, last_seen,
                               sweep.now, ac, {})
          IN  /\ active_connections' = ac
              /\ is_online' = r.is_online
              /\ last_seen' = r.last_seen
              /\ sweep' = [pc |-> r.pc, now |-> sweep.now, to_mark_offline |-> r.rest]
              /\ presence_event' = [op |-> "sweep", user |-> NoUser,
                                    result |-> "ok", online |-> {},
                                    offline |-> r.marked]
    /\ sends' = MarkStale(sends, active_connections')
    /\ UNCHANGED <<last_heartbeat, now, handler>>
    /\ UNCHANGED workflow_vars

\* ------------------------------------------------------- process restart
\* manager = ConnectionManager(): the registry and the heartbeat map start
\* empty, every coroutine is gone; the users table is kept.
Restart ==
    /\ active_connections' = [u \in Users |-> <<>>]
    /\ last_heartbeat' = <<>>
    /\ handler' = [s \in Sessions |-> [state |-> "closed", user |-> NoUser]]
    /\ sweep' = [pc |-> "idle", now |-> 0, to_mark_offline |-> <<>>]
    /\ presence_event' = [NoEvent EXCEPT !.op = "restart"]
    /\ sends' = [k \in Senders |-> IdleSend]
    /\ UNCHANGED <<is_online, last_seen, now>>
    /\ UNCHANGED workflow_vars

\* ------------------------------ ConnectionManager.send_personal_message
\* Lines 58-62, the clean-up loop `for conn in disconnected`: list is the
\* registry's list of the user (<<>>: the key is absent).  Indexing an absent
\* key raises KeyError, list.remove of a socket that is not in the list raises
\* ValueError; an emptied list deletes the key.
RECURSIVE CleanUp(_, _)
CleanUp(list, disconnected) ==
    IF disconnected = <<>> THEN [list |-> list, result |-> "returned"]
    ELSE IF list = <<>> THEN [list |-> list, result |-> "KeyError"]
    ELSE IF ~InList(list, Head(disconnected))
         THEN [list |-> list, result |-> "ValueError"]
    ELSE CleanUp(RemoveFirst(list, Head(disconnected)), Tail(disconnected))

\* A send that writes to the first socket of the registry, whoever it
\* belongs to
SendStart_to_any_user(k, u) ==
    /\ sends[k].pc = "idle"
    /\ IF \A v \in Users : active_connections[v] = <<>>
       THEN /\ UNCHANGED sends
            /\ presence_event' = SendEvent(u, "returned", {}, <<>>)
       ELSE /\ sends' = [sends EXCEPT ![k] =
                   [IdleSend EXCEPT !.pc = "sending", !.user = u, !.i = 1,
                        !.conn = active_connections[
                                    CHOOSE v \in Users :
                                        active_connections[v] # <<>>][1]]]
            /\ presence_event' = [NoEvent EXCEPT !.op = "sending", !.user = u]
    /\ UNCHANGED <<active_connections, last_heartbeat, is_online, last_seen, now,
                   handler, sweep>>
    /\ UNCHANGED workflow_vars

\* Lines 50-54: the call enters the loop and is suspended in the send_text of
\* the first socket; without the key it returns at once.  The function has no
\* return statement: it returns None.
SendStart(k, u) ==
    /\ sends[k].pc = "idle"
    /\ IF active_connections[u] = <<>>
       THEN /\ UNCHANGED sends
            /\ presence_event' = SendEvent(u, "returned", {}, <<>>)
       ELSE /\ sends' = [sends EXCEPT ![k] =
                   [IdleSend EXCEPT !.pc = "sending", !.user = u, !.i = 1,
                                    !.conn = active_connections[u][1]]]
            /\ presence_event' = [NoEvent EXCEPT !.op = "sending", !.user = u]
    /\ UNCHANGED <<active_connections, last_heartbeat, is_online, last_seen, now,
                   handler, sweep>>
    /\ UNCHANGED workflow_vars

\* Lines 53-62: send_text of the current socket returns (ok) or raises, the
\* loop takes the next socket of the list and suspends again, or ends and the
\* clean-up runs.
SendResume(k, ok) ==
    /\ sends[k].pc = "sending"
    /\ LET sd == sends[k]
           u == sd.user
           delivered == IF ok THEN sd.delivered \cup {sd.conn} ELSE sd.delivered
           disconnected == IF ok THEN sd.disconnected
                           ELSE Append(sd.disconnected, sd.conn)
           list == IF sd.stale THEN <<>> ELSE active_connections[u]
       IN  IF sd.i < Len(list)
           THEN /\ sends' = [sends EXCEPT ![k] =
                       [sd EXCEPT !.i = sd.i + 1, !.conn = list[sd.i + 1],
                                  !.delivered = delivered,
                                  !.disconnected = disconnected]]
                /\ UNCHANGED active_connections
                /\ presence_event' = [NoEvent EXCEPT !.op = "sending", !.user = u]
           ELSE LET r == CleanUp(active_connections[u], disconnected) IN
                /\ active_connections' = [active_connections EXCEPT ![u] = r.list]
                /\ sends' = MarkStale([sends EXCEPT ![k] = IdleSend],
                                      active_connections')
                /\ presence_event' = SendEvent(u, r.result, delivered, disconnected)
    /\ UNCHANGED <<last_heartbeat, is_online, last_seen, now, handler, sweep>>
    /\ UNCHANGED workflow_vars

SendNext ==
    \/ \E s \in Sessions, u \in Clients : Connect(s, u)
    \/ \E s \in Sessions : Disconnect(s)
    \/ \E k \in Senders, u \in Clients : SendStart(k, u)
    \/ \E k \in Senders, ok \in BOOLEAN : SendResume(k, ok)

SendSpec == Init /\ [][SendNext]_vars

PresenceNext ==
    \/ \E s \in Sessions, u \in Clients : Connect(s, u)
    \/ \E s \in Sessions : Ping(s)
    \/ \E s \in Sessions : Disconnect(s)
    \/ Tick
    \/ Sweep
    \/ SweepResume
    \/ Restart

PresenceSpec == Init /\ [][PresenceNext]_vars

\* The event loop resumes a suspended coroutine and time passes; nothing in
\* the repository schedules sweep_offline_users (main.py starts no background
\* task), so no fairness is stated for Sweep.
FairPresenceSpec ==
    Init /\ [][PresenceNext]_vars /\ WF_vars(Tick) /\ WF_vars(SweepResume)

\* ======================================================== presence claims

\* A user has no client: no registered socket and no handler that could ping
NoClient(u) ==
    /\ active_connections[u] = <<>>
    /\ \A s \in Sessions : ~(handler[s].state = "open" /\ handler[s].user = u)

\* C1: the sweep never sets is_online to false for a user who has a registered
\* connection at the moment of the write (the registry is not changed by the
\* writes of a sweep step, so it is read after the step).
Claim_C1 ==
    presence_event.op = "sweep" =>
        \A u \in presence_event.offline : active_connections[u] = <<>>

\* C9: a user who is marked online, has no client and sends no further
\* heartbeat is eventually marked offline.
Claim_C9 ==
    \A u \in Users :
        (is_online[u] /\ NoClient(u)) ~> (~is_online[u] \/ ~NoClient(u))

\* C10: a disconnect leaves is_online, last_seen and the heartbeat map as they
\* were and broadcasts no presence event, also when it removes the user's last
\* connection; is_online turns false only in a step of the sweep (so neither a
\* disconnect nor a reconnect before that sweep turns a user offline).
Thm_C10 ==
    [][ /\ (presence_event'.op = "disconnect" =>
               /\ is_online' = is_online
               /\ last_seen' = last_seen
               /\ last_heartbeat' = last_heartbeat
               /\ presence_event'.online = {}
               /\ presence_event'.offline = {})
        /\ \A u \in Users :
               (is_online[u] /\ ~is_online'[u]) => presence_event'.op = "sweep"
      ]_vars

\* C10 witness: the last connection of an online user has just been removed
Witness_C10 ==
    /\ presence_event.op = "disconnect"
    /\ presence_event.result = "ok"
    /\ active_connections[presence_event.user] = <<>>
    /\ is_online[presence_event.user]
    /\ HasHeartbeat(last_heartbeat, presence_event.user)

\* C11: a call of send_personal_message never ends by raising to its caller,
\* whatever connects, disconnects and other sends ran while it was suspended.
Claim_C11 ==
    presence_event.op = "send" => presence_event.result = "returned"

\* C12: when send_personal_message returns, no socket whose send failed is
\* registered under the user, every socket whose send succeeded still is, and
\* the returned value is true iff at least one socket received the payload.
Claim_C12 ==
    (presence_event.op = "send" /\ presence_event.result = "returned") =>
        /\ \A c \in presence_event.failed :
              ~InList(active_connections[presence_event.user], c)
        /\ \A c \in presence_event.delivered :
              InList(active_connections[presence_event.user], c)
        /\ (presence_event.returned = "True") <=> (presence_event.delivered # {})

\* C13: disconnect raises no error, also when the socket is no longer in the
\* list of the user.
Claim_C13 ==
    presence_event.op = "disconnect" => presence_event.result = "ok"

\* =================================================== task assignment workflow
\* routers/task_management.py.  The router spells the enum members in upper
\* case (TaskAssignmentStatus.PENDING_ACCEPTANCE, ConversationStatus.COMPLETED,
\* ...) while models.py declares them in lower case; the model reads each
\* reference as the member of the same spelling.
\* Columns that no modelled operation reads (assignment_message,
\* response_message, rejection_reason, call_*, titles and texts) are left out.
\*
\* A handler that raises HTTPException before its first write persists
\* nothing: such a call is a stuttering step.  For every handler the operator
\* <handler>_status gives the HTTP status of a call in the current state
\* (400 is the spec's InvalidState / Conflict, 403 Forbidden, 404 NotFound),
\* and the action of the handler is the call that returns 2xx.

OpenStatuses == {"pending_acceptance", "discussion_requested", "discussion_active"}

AssignmentIds == 1..MaxAssignments

\* A notification row that is created as already read
Notification_created_read(user, assignment, type) ==
    [user_id |-> user, assignment_id |-> assignment, notification_type |-> type,
     is_read |-> TRUE, read_at |-> NoTime]

\* TaskNotification, models.py 733-753: is_read defaults to False
Notification(user, assignment, type) ==
    [user_id |-> user, assignment_id |-> assignment, notification_type |-> type,
     is_read |-> FALSE, read_at |-> NoTime]

Message(conversation, sender, type) ==
    [conversation_id |-> conversation, sender_id |-> sender,
     message_type |-> type, read_at |-> NoTime]

Conversation(assignment) ==
    [assignment_id |-> assignment, status |-> "active",
     completed_at |-> NoTime, completed_by_id |-> NoUser]

\* db.add(notification); db.commit(): the row is in the table when the commit
\* succeeds
Persist(persisted, row) ==
    IF persisted THEN Append(notifications, row) ELSE notifications

\* lines 32-36 / 113-117
can_assign(actor, t) ==
    \/ role(actor) \in {"admin", "Manager", "Head"}
    \/ task_owner[t] = actor
    \/ task_created_by[t] = actor

\* The guard looks at pending assignments only
existing_assignment_pending_only(t, to) ==
    \E i \in 1..Len(assignments) :
        /\ assignments[i].task_id = t
        /\ assignments[i].assigned_to_id = to
        /\ assignments[i].assignment_status = "pending_acceptance"

\* lines 46-56 / 127-137: an open assignment of this task to this user
existing_assignment(t, to) ==
    \E i \in 1..Len(assignments) :
        /\ assignments[i].task_id = t
        /\ assignments[i].assigned_to_id = to
        /\ assignments[i].assignment_status \in OpenStatuses

\* assign_task lines 26-59, transfer_task lines 108-140
assign_status(actor, t, to) ==
    IF t \notin Tasks THEN 404
    ELSE IF ~can_assign(actor, t) THEN 403
    ELSE IF to \notin Users THEN 404
    ELSE IF existing_assignment(t, to) THEN 400
    ELSE 201

\* assign_task lines 61-84, transfer_task lines 142-165
create_assignment(op, type, actor, t, to) ==
    /\ assign_status(actor, t, to) = 201
    /\ Len(assignments) < MaxAssignments
    /\ Len(notifications) < MaxNotifications
    /\ assignments' = Append(assignments,
           [task_id |-> t, assigned_by_id |-> actor, assigned_to_id |-> to,
            assignment_status |-> "pending_acceptance", response_at |-> NoTime])
    /\ notifications' = Append(notifications,
           Notification(to, Len(assignments) + 1, type))
    /\ UNCHANGED <<task_owner, task_created_by, conversations, messages>>

\* POST /task-management/assign
assign_task(actor, t, to) ==
    /\ create_assignment("assign", "task_assigned", actor, t, to)
    /\ UNCHANGED <<presence_vars, approval_vars>>

\* POST /task-management/transfer
transfer_task(actor, t, to) ==
    /\ create_assignment("transfer", "task_transferred", actor, t, to)
    /\ UNCHANGED <<presence_vars, approval_vars>>

\* the rows of task_conversations for an assignment; Query.first() has no
\* ORDER BY, so any of them may be returned
ConversationsOf(id) ==
    {c \in 1..Len(conversations) : conversations[c].assignment_id = id}

IsParty(actor, id) ==
    \/ assignments[id].assigned_to_id = actor
    \/ assignments[id].assigned_by_id = actor

\* The checks of respond without the one on the request's state
respond_status_without_pending_check(actor, id) ==
    IF id > Len(assignments) THEN 404
    ELSE IF assignments[id].assigned_to_id # actor THEN 403
    ELSE 200

\* respond_to_assignment lines 231-242
respond_status(actor, id) ==
    IF id > Len(assignments) THEN 404
    ELSE IF assignments[id].assigned_to_id # actor THEN 403
    ELSE IF assignments[id].assignment_status # "pending_acceptance" THEN 400
    ELSE 200

\* An accept that leaves the task with its owner
accept_owner_unchanged(t, actor) == task_owner

\* respond_to_assignment lines 253-257: the task goes to the accepting user
accept_owner(t, actor) == [task_owner EXCEPT ![t] = actor]

\* respond_to_assignment, lines 244-305.  The handler commits twice: the
\* response at line 292, the notification at line 305.  persisted tells whether
\* the second commit succeeds; when it raises, the call fails with the first
\* commit in place.
respond(actor, id, action, persisted) ==
    /\ respond_status(actor, id) = 200
    /\ persisted => Len(notifications) < MaxNotifications
    /\ CASE action = "accept" ->
            /\ assignments' = [assignments EXCEPT
                    ![id].response_at = now,
                    ![id].assignment_status = "accepted"]
            /\ task_owner' = accept_owner(assignments[id].task_id, actor)
            /\ notifications' = Persist(persisted, Notification(assignments[id].assigned_by_id, id, "task_accepted"))
            /\ UNCHANGED <<conversations, messages>>
         [] action = "reject" ->
            /\ assignments' = [assignments EXCEPT
                    ![id].response_at = now,
                    ![id].assignment_status = "rejected"]
            /\ notifications' = Persist(persisted, Notification(assignments[id].assigned_by_id, id, "task_rejected"))
            /\ UNCHANGED <<task_owner, conversations, messages>>
         [] action = "discuss" ->
            /\ assignments' = [assignments EXCEPT
                    ![id].response_at = now,
                    ![id].assignment_status = "discussion_requested"]
            /\ conversations' = Append(conversations, Conversation(id))
            \* lines 280-287: the initial message, if response.message is given
            /\ \/ UNCHANGED messages
               \/ /\ Len(messages) < MaxMessages
                  /\ messages' = Append(messages,
                         Message(Len(conversations) + 1, actor, "text"))
            /\ notifications' = Persist(persisted, Notification(assignments[id].assigned_by_id, id,
                                 "discussion_requested"))
            /\ UNCHANGED task_owner
         [] OTHER ->
            \* no branch matches: the stamp is committed and a notification
            \* with an empty type is created
            /\ assignments' = [assignments EXCEPT ![id].response_at = now]
            /\ notifications' = Persist(persisted, Notification(assignments[id].assigned_by_id, id, ""))
            /\ UNCHANGED <<task_owner, conversations, messages>>
    /\ UNCHANGED task_created_by
    /\ UNCHANGED <<presence_vars, approval_vars>>

\* POST /task-management/assignments/{id}/respond, both commits succeed
respond_to_assignment(actor, id, action) ==
    respond(actor, id, action, TRUE)

\* POST /task-management/assignments/{id}/respond, the commit of line 305 raises
respond_to_assignment_commit_raises(actor, id, action) ==
    respond(actor, id, action, FALSE)

\* get_conversation lines 326-337
get_conversation_status(actor, id) ==
    IF id > Len(assignments) THEN 404
    ELSE IF ~(IsParty(actor, id) \/ role(actor) \in {"admin"}) THEN 403
    ELSE 200

\* GET /task-management/conversations/{id}, lines 339-365
get_conversation(actor, id) ==
    /\ get_conversation_status(actor, id) = 200
    /\ \E c \in (IF ConversationsOf(id) = {} THEN {Len(conversations) + 1}
                 ELSE ConversationsOf(id)) :
         /\ conversations' = IF ConversationsOf(id) = {}
                             THEN Append(conversations, Conversation(id))
                             ELSE conversations
         \* lines 352-363: the other party's unread messages are marked read
         /\ messages' = [m \in 1..Len(messages) |->
                            IF /\ messages[m].conversation_id = c
                               /\ messages[m].sender_id # actor
                               /\ messages[m].read_at = NoTime
                            THEN [messages[m] EXCEPT !.read_at = now]
                            ELSE messages[m]]
    /\ UNCHANGED <<task_owner, task_created_by, assignments, notifications>>
    /\ UNCHANGED <<presence_vars, approval_vars>>

\* An access check that lets every caller through
send_message_status_any_caller(actor, id) ==
    IF id > Len(assignments) THEN 404 ELSE 200

\* send_message lines 376-385
send_message_status(actor, id) ==
    IF id > Len(assignments) THEN 404
    ELSE IF ~IsParty(actor, id) THEN 403
    ELSE 200

\* send_message, lines 387-427.  The handler commits twice: the message and
\* the state at line 411, the notification at line 427.  persisted tells
\* whether the second commit succeeds.
\* max_messages and max_notifications bound the two tables.
store_message(actor, id, persisted, max_messages, max_notifications) ==
    /\ send_message_status(actor, id) = 200
    /\ Len(messages) < max_messages
    /\ persisted => Len(notifications) < max_notifications
    /\ \E c \in (IF ConversationsOf(id) = {} THEN {Len(conversations) + 1}
                 ELSE ConversationsOf(id)) :
         /\ conversations' = IF ConversationsOf(id) = {}
                             THEN Append(conversations, Conversation(id))
                             ELSE conversations
         /\ messages' = Append(messages, Message(c, actor, "text"))
    /\ assignments' =
          IF assignments[id].assignment_status = "discussion_requested"
          THEN [assignments EXCEPT ![id].assignment_status = "discussion_active"]
          ELSE assignments
    /\ notifications' = Persist(persisted, Notification(IF actor = assignments[id].assigned_to_id
                       THEN assignments[id].assigned_by_id
                       ELSE assignments[id].assigned_to_id,
                       id, "message_received"))
    /\ UNCHANGED <<task_owner, task_created_by>>
    /\ UNCHANGED <<presence_vars, approval_vars>>

post_message(actor, id, persisted) ==
    store_message(actor, id, persisted, MaxMessages, MaxNotifications)

\* POST /task-management/conversations/{id}/messages, both commits succeed
send_message(actor, id) ==
    post_message(actor, id, TRUE)

\* POST /task-management/conversations/{id}/messages, the commit of line 427 raises
send_message_commit_raises(actor, id) ==
    post_message(actor, id, FALSE)

\* complete_conversation lines 445-461
complete_conversation_status(actor, id) ==
    IF id > Len(assignments) THEN 404
    ELSE IF ConversationsOf(id) = {} THEN 404
    ELSE IF ~IsParty(actor, id) THEN 403
    ELSE 200

\* POST /task-management/conversations/{id}/complete, lines 463-486
complete_conversation(actor, id, action) ==
    /\ complete_conversation_status(actor, id) = 200
    /\ \E c \in ConversationsOf(id) :
         CASE action = "complete" ->
              /\ conversations' = [conversations EXCEPT
                      ![c].status = "completed",
                      ![c].completed_at = now,
                      ![c].completed_by_id = actor]
              /\ assignments' = [assignments EXCEPT
                      ![id].assignment_status = "discussion_completed"]
              \* lines 470-478: the final message, if given
              /\ \/ UNCHANGED messages
                 \/ /\ Len(messages) < MaxMessages
                    /\ messages' = Append(messages, Message(c, actor, "system"))
           [] action = "reopen" ->
              /\ conversations' = [conversations EXCEPT
                      ![c].status = "active",
                      ![c].completed_at = NoTime,
                      ![c].completed_by_id = NoUser]
              /\ assignments' = [assignments EXCEPT
                      ![id].assignment_status = "discussion_active"]
              /\ UNCHANGED messages
           [] OTHER ->
              UNCHANGED <<conversations, assignments, messages>>
    /\ UNCHANGED <<task_owner, task_created_by, notifications>>
    /\ UNCHANGED <<presence_vars, approval_vars>>

\* complete_call lines 572-581
complete_call_status(actor, id) ==
    IF id > Len(assignments) THEN 404
    ELSE IF ~IsParty(actor, id) THEN 403
    ELSE 200

\* POST /task-management/assignments/{id}/complete-call, lines 583-616
complete_call(actor, id, outcome) ==
    /\ complete_call_status(actor, id) = 200
    /\ CASE outcome = "task_accepted" ->
            /\ assignments' = [assignments EXCEPT ![id].assignment_status = "accepted"]
            /\ task_owner' = [task_owner EXCEPT
                    ![assignments[id].task_id] = assignments[id].assigned_to_id]
         [] outcome = "task_rejected" ->
            /\ assignments' = [assignments EXCEPT ![id].assignment_status = "rejected"]
            /\ UNCHANGED task_owner
         [] outcome = "needs_follow_up" ->
            /\ assignments' = [assignments EXCEPT
                    ![id].assignment_status = "discussion_active"]
            /\ UNCHANGED task_owner
         [] OTHER ->
            UNCHANGED <<assignments, task_owner>>
    \* lines 602-616: a system message when a conversation exists
    /\ IF ConversationsOf(id) = {}
       THEN UNCHANGED messages
       ELSE \E c \in ConversationsOf(id) :
               /\ Len(messages) < MaxMessages
               /\ messages' = Append(messages, Message(c, actor, "call_completed"))
    /\ UNCHANGED <<task_created_by, conversations, notifications>>
    /\ UNCHANGED <<presence_vars, approval_vars>>

\* A lookup by id alone, without the filter on user_id
mark_read_status_any_actor(actor, n) ==
    IF n > Len(notifications) THEN 404 ELSE 200

\* mark_task_notification_read lines 657-665
mark_read_status(actor, n) ==
    IF n > Len(notifications) \/ notifications[n].user_id # actor THEN 404 ELSE 200

\* PUT /task-management/notifications/{id}/read, lines 667-673
mark_task_notification_read(actor, n) ==
    /\ mark_read_status(actor, n) = 200
    /\ notifications' = [notifications EXCEPT ![n].is_read = TRUE, ![n].read_at = now]
    /\ UNCHANGED <<task_owner, task_created_by, assignments, conversations, messages>>
    /\ UNCHANGED <<presence_vars, approval_vars>>

\* TaskAssignmentAction.action is an unvalidated str
Actions == {"accept", "reject", "discuss", "later"}
\* ConversationAction.action is an unvalidated str
ConversationActions == {"complete", "reopen", "archive"}
\* CallCompletionRequest.outcome is an unvalidated str
Outcomes == {"resolved", "needs_follow_up", "task_accepted", "task_rejected"}

WorkflowNext ==
    \/ \E actor \in Users, t \in Tasks, to \in Users : assign_task(actor, t, to)
    \/ \E actor \in Users, t \in Tasks, to \in Users : transfer_task(actor, t, to)
    \/ \E actor \in Users, id \in AssignmentIds, action \in Actions :
           respond_to_assignment(actor, id, action)
    \/ \E actor \in Users, id \in AssignmentIds : get_conversation(actor, id)
    \/ \E actor \in Users, id \in AssignmentIds : send_message(actor, id)
    \/ \E actor \in Users, id \in AssignmentIds, action \in ConversationActions :
           complete_conversation(actor, id, action)
    \/ \E actor \in Users, id \in AssignmentIds, outcome \in Outcomes :
           complete_call(actor, id, outcome)

WorkflowSpec == Init /\ [][WorkflowNext]_vars

\* The calls of assign, respond and send_message, with the database failing
\* or not at the commit of the notification
PersistNext ==
    \/ \E actor \in Users, t \in Tasks, to \in Users : assign_task(actor, t, to)
    \/ \E actor \in Users, id \in AssignmentIds, action \in Actions :
           respond_to_assignment(actor, id, action)
    \/ \E actor \in Users, id \in AssignmentIds, action \in Actions :
           respond_to_assignment_commit_raises(actor, id, action)
    \/ \E actor \in Users, id \in AssignmentIds : send_message(actor, id)
    \/ \E actor \in Users, id \in AssignmentIds : send_message_commit_raises(actor, id)

PersistSpec == Init /\ [][PersistNext]_vars

\* ========================================================= approval requests
\* routers/approvals.py.  Titles, texts, request_type, request_metadata and
\* updated_at are left out.  A chat conversation is identified by its pair of
\* participants; create_approval_request creates the conversation of the pair
\* when it is absent, so the lookup of respond_to_approval_request (line 274)
\* finds it for every request made through the API.

ApprovalIds == 1..MaxApprovals

ApprovalNotification(user, request, type) ==
    [user_id |-> user, approval_request_id |-> request,
     notification_type |-> type, is_read |-> FALSE, read_at |-> NoTime]

ChatMessage(a, b, sender, type, request) ==
    [participant1_id |-> IF a < b THEN a ELSE b,
     participant2_id |-> IF a < b THEN b ELSE a,
     sender_id |-> sender, message_type |-> type, approval_request_id |-> request]

\* create_approval_request lines 25-37
create_approval_status(actor, approver) ==
    IF approver \notin Users THEN 404
    ELSE IF approver = actor THEN 400
    ELSE 201

\* A create_approval_request that writes the notification only when the
\* approver has a registered connection
create_approval_request_online_only(actor, approver) ==
    /\ create_approval_status(actor, approver) = 201
    /\ Len(approval_requests) < MaxApprovals
    /\ Len(approval_notifications) < MaxApprovalNotifications
    /\ Len(chat_messages) < MaxChatMessages
    /\ approval_requests' = Append(approval_requests,
           [requester_id |-> actor, approver_id |-> approver,
            status |-> "pending", responded_at |-> NoTime])
    /\ approval_notifications' =
           IF active_connections[approver] # <<>>
           THEN Append(approval_notifications,
                    ApprovalNotification(approver, Len(approval_requests) + 1,
                                         "new_request"))
           ELSE approval_notifications
    /\ chat_messages' = Append(chat_messages,
           ChatMessage(actor, approver, actor, "approval_request",
                       Len(approval_requests) + 1))
    /\ UNCHANGED <<presence_vars, assignment_vars>>

\* POST /approvals/, lines 39-103
create_approval_request(actor, approver) ==
    /\ create_approval_status(actor, approver) = 201
    /\ Len(approval_requests) < MaxApprovals
    /\ Len(approval_notifications) < MaxApprovalNotifications
    /\ Len(chat_messages) < MaxChatMessages
    /\ approval_requests' = Append(approval_requests,
           [requester_id |-> actor, approver_id |-> approver,
            status |-> "pending", responded_at |-> NoTime])
    /\ approval_notifications' = Append(approval_notifications,
           ApprovalNotification(approver, Len(approval_requests) + 1, "new_request"))
    /\ chat_messages' = Append(chat_messages,
           ChatMessage(actor, approver, actor, "approval_request",
                       Len(approval_requests) + 1))
    /\ UNCHANGED <<presence_vars, assignment_vars>>

\* respond_to_approval_request lines 215-229
respond_to_approval_status(actor, id, action) ==
    IF id > Len(approval_requests) THEN 404
    ELSE IF approval_requests[id].approver_id # actor THEN 403
    ELSE IF action \notin {"approve", "reject", "discussion"} THEN 400
    ELSE 200

\* POST /approvals/{id}/respond, lines 231-302
respond_to_approval_request(actor, id, action) ==
    /\ respond_to_approval_status(actor, id, action) = 200
    /\ Len(approval_notifications) < MaxApprovalNotifications
    /\ approval_requests' = [approval_requests EXCEPT
            ![id].responded_at = now,
            ![id].status = CASE action = "approve" -> "approved"
                             [] action = "reject" -> "rejected"
                             [] OTHER -> "discussion"]
    /\ approval_notifications' = Append(approval_notifications,
            ApprovalNotification(approval_requests[id].requester_id, id,
                CASE action = "approve" -> "approved"
                  [] action = "reject" -> "rejected"
                  [] OTHER -> "discussion"))
    /\ IF action = "discussion"
       THEN /\ Len(chat_messages) < MaxChatMessages
            /\ chat_messages' = Append(chat_messages,
                   ChatMessage(approval_requests[id].requester_id, actor, actor,
                               "system", 0))
       ELSE UNCHANGED chat_messages
    /\ UNCHANGED <<presence_vars, assignment_vars>>

\* mark_approval_notification_read lines 335-343
mark_approval_read_status(actor, n) ==
    IF n > Len(approval_notifications) \/ approval_notifications[n].user_id # actor
    THEN 404 ELSE 200

\* PUT /approvals/notifications/{id}/read, lines 345-350
mark_approval_notification_read(actor, n) ==
    /\ mark_approval_read_status(actor, n) = 200
    /\ approval_notifications' = [approval_notifications EXCEPT
            ![n].is_read = TRUE, ![n].read_at = now]
    /\ UNCHANGED <<approval_requests, chat_messages>>
    /\ UNCHANGED <<presence_vars, assignment_vars>>

\* ApprovalRequestResponse.action is an unvalidated str
ApprovalActions == {"approve", "reject", "discussion", "later"}

ApprovalNext ==
    \/ \E actor \in Users, approver \in Users : create_approval_request(actor, approver)
    \/ \E actor \in Users, id \in ApprovalIds, action \in ApprovalActions :
           respond_to_approval_request(actor, id, action)
    \/ \E actor \in Users, n \in 1..MaxApprovalNotifications :
           mark_approval_notification_read(actor, n)

ApprovalSpec == Init /\ [][ApprovalNext]_vars

\* ============================================= claims on the request workflow

\* the rows of task_assignments
Rows == 1..Len(assignments)

\* an earlier request of the pair (t, to) is pending, discussion_requested or
\* discussion_active
OpenRequest(t, to) ==
    \E i \in Rows :
        /\ assignments[i].task_id = t
        /\ assignments[i].assigned_to_id = to
        /\ assignments[i].assignment_status \in
               {"pending_acceptance", "discussion_requested", "discussion_active"}

\* the pair (t, to) has requests and all of them are rejected
AllRejected(t, to) ==
    /\ \E i \in Rows : assignments[i].task_id = t /\ assignments[i].assigned_to_id = to
    /\ \A i \in Rows :
          (assignments[i].task_id = t /\ assignments[i].assigned_to_id = to)
              => assignments[i].assignment_status = "rejected"

\* C2: once a respond call by the counterpart has succeeded (the response
\* stamp of the request is set), every later respond call of the counterpart
\* on that request fails with InvalidState (400), for assignments and for
\* approval requests.
Claim_C2 ==
    /\ \A id \in Rows :
          assignments[id].response_at # NoTime
              => respond_status(assignments[id].assigned_to_id, id) = 400
    /\ \A id \in 1..Len(approval_requests) :
          approval_requests[id].responded_at # NoTime
              => \A action \in ApprovalActions :
                    respond_to_approval_status(approval_requests[id].approver_id,
                                               id, action) = 400

\* the notifications that record a successful response to approval request id
ApprovalResponses(id) ==
    {n \in 1..Len(approval_notifications) :
        /\ approval_notifications[n].approval_request_id = id
        /\ approval_notifications[n].notification_type
               \in {"approved", "rejected", "discussion"}}

\* the notifications that record a successful response to assignment id
AssignmentResponses(id) ==
    {n \in 1..Len(notifications) :
        /\ notifications[n].assignment_id = id
        /\ notifications[n].notification_type
               \in {"task_accepted", "task_rejected", "discussion_requested"}}

\* C3: of the respond calls made on one request at most one succeeds: no
\* request has accepted two responses (each successful respond call records
\* exactly one response notification).
Claim_C3 ==
    /\ \A id \in 1..Len(approval_requests) : Cardinality(ApprovalResponses(id)) <= 1
    /\ \A id \in Rows : Cardinality(AssignmentResponses(id)) <= 1

\* the step is a call of actor on assignment id
CallBy(actor, id) ==
    \/ \E action \in Actions : respond_to_assignment(actor, id, action)
    \/ get_conversation(actor, id)
    \/ send_message(actor, id)
    \/ \E action \in ConversationActions : complete_conversation(actor, id, action)
    \/ \E outcome \in Outcomes : complete_call(actor, id, outcome)

OtherParty(actor, id) ==
    IF actor = assignments[id].assigned_to_id
    THEN assignments[id].assigned_by_id
    ELSE assignments[id].assigned_to_id

Edges ==
    { <<"pending_acceptance", "accepted">>,
      <<"pending_acceptance", "rejected">>,
      <<"pending_acceptance", "discussion_requested">>,
      <<"discussion_requested", "discussion_active">>,
      <<"discussion_active", "discussion_completed">>,
      <<"discussion_completed", "discussion_active">> }

Claim_C8 ==
    [][ /\ \A id \in Rows :
             <<assignments[id].assignment_status, assignments'[id].assignment_status>>
                 \notin {<<"accepted", "rejected">>, <<"rejected", "accepted">>}
        /\ \A id \in 1..Len(approval_requests) :
             <<approval_requests[id].status, approval_requests'[id].status>>
                 \notin {<<"approved", "rejected">>, <<"rejected", "approved">>}
      ]_vars

Reverse(list) == [i \in 1..Len(list) |-> list[Len(list) + 1 - i]]

\* Query.limit(limit).all()
Limit(list, limit) ==
    SubSeq(list, 1, IF limit < Len(list) THEN limit ELSE Len(list))

\* GET /task-management/notifications, lines 638-647: the rows of the user,
\* newest first, at most limit of them
get_task_notifications(user, unread_only, limit) ==
    Limit(Reverse(SelectSeq(notifications,
              LAMBDA n : n.user_id = user /\ (unread_only => ~n.is_read))),
          limit)

\* GET /approvals/notifications/, lines 312-322
get_approval_notifications(user, unread_only, limit) ==
    Limit(Reverse(SelectSeq(approval_notifications,
              LAMBDA n : n.user_id = user /\ (unread_only => ~n.is_read))),
          limit)

\* notify_approval_request, websocket.py lines 166-171, run by the task that
\* create_approval_request spawned for request id: the call of
\* send_personal_message for the approver
notify_approval_request(k, id) ==
    /\ id <= Len(approval_requests)
    /\ SendStart(k, approval_requests[id].approver_id)

DurableNext ==
    \/ \E s \in Sessions, u \in Clients : Connect(s, u)
    \/ \E s \in Sessions : Disconnect(s)
    \/ \E actor \in Users, t \in Tasks, to \in Users : assign_task(actor, t, to)
    \/ \E actor \in Users, approver \in Users : create_approval_request(actor, approver)
    \/ \E id \in ApprovalIds : notify_approval_request(1, id)
    \/ SendResume(1, TRUE)
    \/ SendResume(1, FALSE)

DurableSpec == Init /\ [][DurableNext]_vars

\* the rows of a table stay, as they are, at their place
Kept(old, new) ==
    /\ Len(old) <= Len(new)
    /\ \A i \in 1..Len(old) : new[i] = old[i]

\* C15: a created assignment or approval request has its notification row
\* for the recipient appended, whatever connections the recipient has; no step
\* of the live delivery (nor a connect or a disconnect) removes or changes a
\* row; every row is returned by the recipient's list call.
Thm_C15 ==
    /\ [](/\ \A i \in 1..Len(notifications) :
                InList(get_task_notifications(notifications[i].user_id, FALSE,
                                              MaxNotifications),
                       notifications[i])
          /\ \A i \in 1..Len(approval_notifications) :
                InList(get_approval_notifications(approval_notifications[i].user_id,
                                                  FALSE, MaxApprovalNotifications),
                       approval_notifications[i]))
    /\ [][ /\ Kept(notifications, notifications')
           /\ Kept(approval_notifications, approval_notifications')
           /\ Len(assignments') > Len(assignments) =>
                 /\ Len(notifications') = Len(notifications) + 1
                 /\ notifications'[Len(notifications')].user_id =
                        assignments'[Len(assignments')].assigned_to_id
                 /\ notifications'[Len(notifications')].assignment_id =
                        Len(assignments')
           /\ Len(approval_requests') > Len(approval_requests) =>
                 /\ Len(approval_notifications') = Len(approval_notifications) + 1
                 /\ approval_notifications'[Len(approval_notifications')].user_id =
                        approval_requests'[Len(approval_requests')].approver_id
                 /\ approval_notifications'[Len(approval_notifications')]
                        .approval_request_id = Len(approval_requests')
         ]_vars

\* C15 witness: user u never had a connection (last_seen is stamped by every
\* connect), a live delivery to u has just ended without any socket written
\* to, and u's list calls return the notification of an assignment and the
\* notification of an approval request.
Witness_C15 ==
    \E u \in Users :
        /\ last_seen[u] = NoTime
        /\ active_connections[u] = <<>>
        /\ presence_event.op = "send"
        /\ presence_event.user = u
        /\ presence_event.delivered = {}
        /\ \E n \in 1..Len(get_task_notifications(u, FALSE, MaxNotifications)) :
              get_task_notifications(u, FALSE, MaxNotifications)[n]
                  .notification_type = "task_assigned"
        /\ \E n \in 1..Len(get_approval_notifications(u, FALSE,
                                                      MaxApprovalNotifications)) :
              get_approval_notifications(u, FALSE, MaxApprovalNotifications)[n]
                  .notification_type = "new_request"

UnreadOf(u, id) ==
    {n \in 1..Len(notifications) :
        /\ notifications[n].user_id = u
        /\ notifications[n].assignment_id = id
        /\ ~notifications[n].is_read}

\* the rows of task_messages of conversation c
MessagesOf(c) ==
    {m \in 1..Len(messages) : messages[m].conversation_id = c}

send_thread_message(actor, id) ==
    store_message(actor, id, TRUE, MaxThread, MaxThreadNotifications)

ThreadNext ==
    \/ \E actor \in Users, t \in Tasks, to \in Users : assign_task(actor, t, to)
    \/ \E actor \in Users, id \in AssignmentIds : send_thread_message(actor, id)
    \/ \E actor \in Users, id \in AssignmentIds : get_conversation(actor, id)

ThreadSpec == Init /\ [][ThreadNext]_vars

\* the orders in which a SELECT without ORDER BY can return the rows ids
Unordered(ids) ==
    {r \in [1..Cardinality(ids) -> ids] : \A x \in ids : \E i \in DOMAIN r : r[i] = x}

\* get_conversation lines 339-342 and 365: the messages of the returned
\* conversation (their row ids) as joinedload(TaskConversation.messages)
\* loads them.  The relationship (models.py 711) declares no order_by and the
\* query has none, so the database returns the rows in any order.
conversation_messages(c) == Unordered(MessagesOf(c))

SerialSweepNext ==
    \/ sweep.pc = "idle" /\ \E s \in Sessions, u \in Clients : Connect(s, u)
    \/ sweep.pc = "idle" /\ \E s \in Sessions : Ping(s)
    \/ sweep.pc = "idle" /\ \E s \in Sessions : Disconnect(s)
    \/ sweep.pc = "idle" /\ Tick
    \/ Sweep
    \/ SweepResume

SerialSweepSpec == Init /\ [][SerialSweepNext]_vars

\* C20: a run of the sweep that starts right after a run of the sweep has
\* ended (the last step was a step of the sweep: no ping, connect, disconnect
\* or clock step since) changes no is_online and no last_seen, broadcasts no
\* presence event and ends without suspending.
Thm_C20 ==
    [][ (Sweep /\ presence_event.op = "sweep") =>
            /\ is_online' = is_online
            /\ last_seen' = last_seen
            /\ active_connections' = active_connections
            /\ presence_event'.offline = {}
            /\ sweep'.pc = "idle"
      ]_vars

\* C20 witness: a sweep has just run and marked nobody (no handler is open,
\* so the step was the start of a run, not the resumption of one), at the very
\* time at which an earlier sweep marked a stale user offline.
Witness_C20 ==
    /\ presence_event.op = "sweep"
    /\ presence_event.offline = {}
    /\ sweep.pc = "idle"
    /\ \A s \in Sessions : handler[s].state = "closed"
    /\ \E u \in Users :
          /\ HasHeartbeat(last_heartbeat, u)
          /\ now - HeartbeatOf(last_heartbeat, u) > grace_seconds
          /\ ~is_online[u]
          /\ last_seen[u] = now

\* ====================================================== reading notifications
\* The calls that create a request with its notification, the two mark-read
\* calls and the clock
ReadNext ==
    \/ \E actor \in Users, t \in Tasks, to \in Users : assign_task(actor, t, to)
    \/ \E actor \in Users, approver \in Users : create_approval_request(actor, approver)
    \/ \E actor \in Users, n \in 1..MaxNotifications :
           mark_task_notification_read(actor, n)
    \/ \E actor \in Users, n \in 1..MaxApprovalNotifications :
           mark_approval_notification_read(actor, n)
    \/ Tick

ReadSpec == Init /\ [][ReadNext]_vars

\* C21: a mark-read call of the recipient on a notification that is already
\* read leaves the row (is_read and read_at) as the first call left it.
Claim_C21 ==
    [][ /\ \A actor \in Users, n \in 1..MaxNotifications :
              (mark_task_notification_read(actor, n) /\ notifications[n].is_read)
                  => notifications'[n] = notifications[n]
        /\ \A actor \in Users, n \in 1..MaxApprovalNotifications :
              ( /\ mark_approval_notification_read(actor, n)
                /\ approval_notifications[n].is_read )
                  => approval_notifications'[n] = approval_notifications[n]
      ]_vars

\* Every call that writes a notification table, without the clock
MarkNext ==
    \/ \E actor \in Users, t \in Tasks, to \in Users : assign_task(actor, t, to)
    \/ \E actor \in Users, id \in AssignmentIds, action \in Actions :
           respond_to_assignment(actor, id, action)
    \/ \E actor \in Users, approver \in Users : create_approval_request(actor, approver)
    \/ \E actor \in Users, id \in ApprovalIds, action \in ApprovalActions :
           respond_to_approval_request(actor, id, action)
    \/ \E actor \in Users, n \in 1..MaxNotifications :
           mark_task_notification_read(actor, n)
    \/ \E actor \in Users, n \in 1..MaxApprovalNotifications :
           mark_approval_notification_read(actor, n)

MarkSpec == Init /\ [][MarkNext]_vars

\* C22: a mark-read call by anyone but the recipient fails (404, nothing
\* written); no step turns is_read from true to false; a step that turns
\* is_read from false to true is the mark-read call of the row's recipient.
\* (A row is identified by its position; no call of MarkNext deletes one.)
Thm_C22 ==
    /\ [](/\ \A actor \in Users, n \in 1..Len(notifications) :
                actor # notifications[n].user_id => mark_read_status(actor, n) = 404
          /\ \A actor \in Users, n \in 1..Len(approval_notifications) :
                actor # approval_notifications[n].user_id
                    => mark_approval_read_status(actor, n) = 404)
    /\ [][ /\ \A n \in 1..Len(notifications) :
                /\ n <= Len(notifications')
                /\ notifications[n].is_read => notifications'[n].is_read
                /\ (~notifications[n].is_read /\ notifications'[n].is_read)
                      => mark_task_notification_read(notifications[n].user_id, n)
           /\ \A n \in 1..Len(approval_notifications) :
                /\ n <= Len(approval_notifications')
                /\ approval_notifications[n].is_read
                      => approval_notifications'[n].is_read
                /\ ( /\ ~approval_notifications[n].is_read
                     /\ approval_notifications'[n].is_read )
                      => mark_approval_notification_read(
                             approval_notifications[n].user_id, n)
         ]_vars

\* C22 witness: a task notification and an approval notification have been
\* marked read while a notification of another user is still unread
Witness_C22 ==
    /\ \E n, m \in 1..Len(notifications) :
          /\ notifications[n].is_read
          /\ ~notifications[m].is_read
          /\ notifications[m].user_id # notifications[n].user_id
    /\ \E n \in 1..Len(approval_notifications) : approval_notifications[n].is_read

\* ==================================================== sweeps after a restart
\* The server runner schedules sweep_offline_users again and again (the
\* comment of line 128), a suspended sweep is resumed and time passes.
ScheduledSweepSpec ==
    /\ Init /\ [][PresenceNext]_vars
    /\ WF_vars(Tick) /\ WF_vars(Sweep) /\ WF_vars(SweepResume)

\* C23: a user who is persisted as online when the process restarts and who
\* does not reconnect is eventually marked offline by the sweeps that follow.
Claim_C23 ==
    \A u \in Users :
        (presence_event.op = "restart" /\ is_online[u])
            ~> (~is_online[u] \/ ~NoClient(u))

DiscussNext ==
    \/ \E actor \in Users, t \in Tasks, to \in Users : assign_task(actor, t, to)
    \/ \E actor \in Users, id \in AssignmentIds, action \in Actions :
           respond_to_assignment(actor, id, action)
    \/ \E actor \in Users, id \in AssignmentIds : send_thread_message(actor, id)
    \/ \E actor \in Users, id \in AssignmentIds : get_conversation(actor, id)

DiscussSpec == Init /\ [][DiscussNext]_vars

RespondNext ==
    \/ \E actor \in Users, t \in Tasks, to \in Users : assign_task(actor, t, to)
    \/ \E actor \in Users, id \in AssignmentIds, action \in Actions :
           respond_to_assignment(actor, id, action)
    \/ \E actor \in Users, approver \in Users : create_approval_request(actor, approver)
    \/ \E actor \in Users, id \in ApprovalIds, action \in ApprovalActions :
           respond_to_approval_request(actor, id, action)

RespondSpec == Init /\ [][RespondNext]_vars

\* C28: a respond call for an unknown request, by a caller who is not the
\* counterpart, or (task assignments) on a request that is not pending is
\* answered with an error, and no such call writes: a request that is not
\* pending keeps its row, its conversations, its messages, its notifications
\* and the owner of its task, and a step that changes a request, a
\* conversation, a message or the owner of a task, or that notifies of a
\* response, is the respond call of the request's counterpart.  (respond_to_approval_request has no check of the
\* state; its third error is the action outside approve, reject, discussion.)
Thm_C28 ==
    /\ [](/\ \A actor \in Users, id \in AssignmentIds :
               /\ id \notin Rows => respond_status(actor, id) = 404
               /\ (id \in Rows /\ assignments[id].assigned_to_id # actor)
                     => respond_status(actor, id) = 403
               /\ ( /\ id \in Rows
                    /\ assignments[id].assigned_to_id = actor
                    /\ assignments[id].assignment_status # "pending_acceptance" )
                     => respond_status(actor, id) = 400
          /\ \A actor \in Users, id \in ApprovalIds, action \in ApprovalActions :
               /\ id > Len(approval_requests)
                     => respond_to_approval_status(actor, id, action) = 404
               /\ ( /\ id <= Len(approval_requests)
                    /\ approval_requests[id].approver_id # actor )
                     => respond_to_approval_status(actor, id, action) = 403)
    /\ [][ /\ \A id \in Rows :
                /\ assignments[id].assignment_status # "pending_acceptance" =>
                      /\ assignments'[id] = assignments[id]
                      /\ task_owner'[assignments[id].task_id]
                            = task_owner[assignments[id].task_id]
                      /\ ConversationsOf(id)' = ConversationsOf(id)
                      /\ \A n \in Len(notifications) + 1 .. Len(notifications') :
                            notifications'[n].assignment_id # id
                /\ assignments'[id] # assignments[id] =>
                      \E action \in Actions :
                          respond_to_assignment(assignments[id].assigned_to_id,
                                                id, action)
           /\ \A n \in Len(notifications) + 1 .. Len(notifications') :
                 \/ notifications'[n].notification_type = "task_assigned"
                 \/ \E id \in Rows, action \in Actions :
                        /\ notifications'[n].assignment_id = id
                        /\ respond_to_assignment(assignments[id].assigned_to_id,
                                                 id, action)
           /\ ( \/ messages' # messages
                \/ conversations' # conversations
                \/ task_owner' # task_owner ) =>
                 \E id \in Rows, action \in Actions :
                     respond_to_assignment(assignments[id].assigned_to_id,
                                           id, action)
           /\ \A id \in 1..Len(approval_requests) :
                approval_requests'[id] # approval_requests[id] =>
                    \E action \in {"approve", "reject", "discussion"} :
                        respond_to_approval_request(approval_requests[id].approver_id,
                                                    id, action)
         ]_vars

\* C28 witness: a task request has been answered (a further respond call gets
\* 400, a call of the other user 403, a call for the next id 404) and an
\* approval request has been answered
Witness_C28 ==
    /\ \E id \in Rows, actor \in Users :
          /\ assignments[id].assignment_status = "rejected"
          /\ respond_status(assignments[id].assigned_to_id, id) = 400
          /\ respond_status(actor, id) = 403
          /\ Len(assignments) + 1 \in AssignmentIds
          /\ respond_status(actor, Len(assignments) + 1) = 404
    /\ \E id \in 1..Len(approval_requests), actor \in Users :
          /\ approval_requests[id].status = "approved"
          /\ respond_to_approval_status(actor, id, "approve") = 403

\* ============================================================ end of handlers
\* websocket_endpoint, lines 107-109: receive_text returns a text that is not
\* JSON.  json.loads raises JSONDecodeError; the handler catches
\* WebSocketDisconnect only (line 125), so the coroutine ends with the
\* exception and manager.disconnect is not called.
ReceiveInvalid(s) ==
    /\ handler[s].state = "open"
    /\ handler' = [handler EXCEPT ![s] = [state |-> "closed", user |-> NoUser]]
    /\ presence_event' = [op |-> "receive", user |-> handler[s].user,
                          result |-> "JSONDecodeError", online |-> {}, offline |-> {}]
    /\ UNCHANGED <<active_connections, last_heartbeat, is_online, last_seen, now,
                   sweep, sends>>
    /\ UNCHANGED workflow_vars

\* The life of the handlers; every connection is a new socket object
HandlerNext ==
    \/ \E s \in Sessions, u \in Clients :
           s \notin Registered(active_connections) /\ Connect(s, u)
    \/ \E s \in Sessions : Ping(s)
    \/ \E s \in Sessions : Disconnect(s)
    \/ \E s \in Sessions : ReceiveInvalid(s)
    \/ Tick

HandlerSpec == Init /\ [][HandlerNext]_vars

\* C29: no socket whose handler has ended is registered
Claim_C29 ==
    \A s \in Sessions :
        handler[s].state = "closed" => s \notin Registered(active_connections)

\* ======================================================= recipients of a send
\* websocket_endpoint, lines 98-101: the token does not resolve to a user
\* (get_user_from_token returns None); the socket is closed with code 1008 and
\* the handler returns before manager.connect.
ConnectInvalid(s) ==
    /\ handler[s].state = "closed"
    /\ presence_event' = [op |-> "close", user |-> NoUser, result |-> "1008",
                          online |-> {}, offline |-> {}]
    /\ UNCHANGED <<active_connections, last_heartbeat, is_online, last_seen, now,
                   handler, sweep, sends>>
    /\ UNCHANGED workflow_vars

AuthSendNext ==
    \/ \E s \in Sessions, u \in Clients : Connect(s, u)
    \/ \E s \in Sessions : ConnectInvalid(s)
    \/ \E s \in Sessions : Disconnect(s)
    \/ \E k \in Senders, u \in Clients : SendStart(k, u)
    \/ \E k \in Senders, ok \in BOOLEAN : SendResume(k, ok)

AuthSendSpec == Init /\ [][AuthSendNext]_vars

\* C30: whenever a call of send_personal_message for user u takes a socket to
\* write the payload to, the socket is in the registry's list of u at that
\* moment; the sockets the call reports as written to are sockets it took; a
\* connection whose token is refused registers no socket and is handed to no
\* send.
Thm_C30 ==
    [][ /\ \A k \in Senders :
              /\ ( /\ sends'[k].pc = "sending"
                   /\ (sends[k].pc # "sending" \/ sends'[k].i # sends[k].i) )
                    => /\ InList(active_connections[sends'[k].user], sends'[k].conn)
                       /\ InList(active_connections'[sends'[k].user], sends'[k].conn)
              /\ sends'[k].delivered \subseteq sends[k].delivered \cup {sends[k].conn}
              /\ \A ok \in BOOLEAN :
                    (SendResume(k, ok) /\ presence_event'.op = "send") =>
                        /\ presence_event'.user = sends[k].user
                        /\ presence_event'.delivered
                              \subseteq sends[k].delivered \cup {sends[k].conn}
        /\ \A s \in Sessions :
              ConnectInvalid(s) =>
                  /\ active_connections' = active_connections
                  /\ sends' = sends
                  /\ s \notin Registered(active_connections')
      ]_vars

\* C30 witness: a send to a user has ended with a socket written to, while
\* another user has a registered socket that the send did not write to
Witness_C30 ==
    /\ presence_event.op = "send"
    /\ presence_event.delivered # {}
    /\ \E v \in Users :
          /\ v # presence_event.user
          /\ active_connections[v] # <<>>
          /\ \A i \in 1..Len(active_connections[v]) :
                active_connections[v][i] \notin presence_event.delivered

====
